---- MODULE Spec2Model ----
(***************************************************************************)
(* Feedback Pulse: a Worker that classifies feedback with a text model,    *)
(* stores it in a D1 (SQLite) table and produces digests.  The model       *)
(* follows src/src/index.ts handler by handler.  A handler is split into   *)
(* steps only where it touches the store more than once (every store call  *)
(* is an await, so other requests can run in between); the model call and  *)
(* the local computation around it are folded into the step of the store   *)
(* call that follows them.                                                 *)
(***************************************************************************)
EXTENDS Integers, Sequences, FiniteSets, TLC

\* ------------------------------------------------------------------ bounds
MaxTicks == 1          \* clock ticks after the module was loaded
MaxPosts == 2          \* rows inserted by POST /api/feedback
MaxRows == 13          \* rows of the feedback table, those of earlier seeds apart
MaxSeeds == 2          \* POST /api/seed requests started
MaxSeedsAmongPosts == 1 \* POST /api/seed requests started where feedback is posted
MaxDigests == 2        \* digest rows (persisted or about to be)
MaxAnswered == 1       \* rows carrying a classification the model supplied
MaxInflight == 1       \* requests suspended between two store calls
LoadTime == 58         \* the half-hour in which the module was loaded

\* ------------------------------------------------------- program constants
DigestLimit == 50      \* LIMIT 50 of the digest's feedback query
HalfHourMs == 1800000  \* the clock counts half-hours, the smallest mock offset
DayLen == 86400000 \div HalfHourMs

\* ------------------------------------------------------- JavaScript values
\* A value is a record whose k names its type; v is its payload.
Undefined == [k |-> "undefined", v |-> <<>>]
Null == [k |-> "null", v |-> <<>>]
Str(s) == [k |-> "string", v |-> s]
Num(n) == [k |-> "number", v |-> n]
Arr(items) == [k |-> "array", v |-> items]
Obj(pairs) == [k |-> "object", v |-> pairs]
\* a string holding JSON text, kept as its sequence of tokens
Text(tokens) == [k |-> "text", v |-> tokens]

\* JavaScript truthiness, as used by `||` and `!`
Truthy(x) ==
    CASE x.k = "undefined" -> FALSE
      [] x.k = "null" -> FALSE
      [] x.k = "string" -> x.v # ""
      [] x.k = "text" -> x.v # <<>>
      [] x.k = "number" -> x.v # 0
      [] OTHER -> TRUE

\* a || b
OrElse(a, b) == IF Truthy(a) THEN a ELSE b

\* obj.key on an object value: the first pair with that key, else undefined
Prop(obj, key) ==
    IF obj.k = "object" /\ \E i \in 1..Len(obj.v) : obj.v[i][1] = key
    THEN obj.v[CHOOSE i \in 1..Len(obj.v) : obj.v[i][1] = key][2]
    ELSE Undefined

\* ------------------------------------------------------------- timestamps
\* A timestamp string is compared as text.  Its first ten characters are
\* the date, the eleventh is ' ' (CURRENT_TIMESTAMP) or 'T' (toISOString),
\* the rest is the time of day.
SepCode(fmt) == IF fmt = "sql" THEN 32 ELSE 84

\* SQLite CURRENT_TIMESTAMP: 'YYYY-MM-DD HH:MM:SS'
CurrentTimestamp(t) == [day |-> t \div DayLen, fmt |-> "sql", tod |-> t % DayLen]

\* Date.prototype.toISOString: 'YYYY-MM-DDTHH:MM:SS.sssZ'
toISOString(t) == [day |-> t \div DayLen, fmt |-> "iso", tod |-> t % DayLen]

\* the instant a timestamp string denotes
Instant(ts) == ts.day * DayLen + ts.tod

\* text comparison a < b of two timestamp strings
TsLess(a, b) ==
    \/ a.day < b.day
    \/ a.day = b.day /\ SepCode(a.fmt) < SepCode(b.fmt)
    \/ a.day = b.day /\ a.fmt = b.fmt /\ a.tod < b.tod

\* -------------------------------------------------------------- JSON text
Digits == <<"0", "1", "2", "3", "4", "5", "6", "7", "8", "9">>
P(c) == <<"p", c>>

\* the token of a scalar
ScalarToken(x) ==
    CASE x.k = "string" -> <<"s", x.v>>
      [] x.k = "number" -> <<"n", Digits[x.v + 1]>>
      [] OTHER -> <<"l", "null">>

RECURSIVE JoinTokens(_)
\* the groups of tokens, separated by commas
JoinTokens(groups) ==
    IF Len(groups) = 0 THEN <<>>
    ELSE IF Len(groups) = 1 THEN groups[1]
    ELSE groups[1] \o <<P(",")>> \o JoinTokens(Tail(groups))

\* JSON.stringify(x): undefined for undefined, else the JSON text
JSONstringify(x) ==
    CASE x.k = "undefined" -> Undefined
      [] x.k = "array" ->
          Text(<<P("[")>>
               \o JoinTokens([i \in 1..Len(x.v) |-> <<ScalarToken(x.v[i])>>])
               \o <<P("]")>>)
      [] x.k = "object" ->
          Text(<<P("{")>>
               \o JoinTokens([i \in 1..Len(x.v) |->
                               <<<<"s", x.v[i][1]>>, P(":"), ScalarToken(x.v[i][2])>>])
               \o <<P("}")>>)
      [] OTHER -> Text(<<ScalarToken(x)>>)

ParseScalar(tok) ==
    CASE tok[1] = "s" -> Str(tok[2])
      [] tok[1] = "n" -> Num((CHOOSE i \in 1..Len(Digits) : Digits[i] = tok[2]) - 1)
      [] OTHER -> Null

IsScalarToken(tok) == tok[1] \in {"s", "n", "l"}

\* the value JSON.parse returns for a JSON text; SyntaxError when malformed
SyntaxError == [k |-> "SyntaxError", v |-> <<>>]
JSONparse(tokens) ==
    LET n == Len(tokens)
        inner == SubSeq(tokens, 2, n - 1)
        m == Len(inner)
    IN  IF n = 1 /\ IsScalarToken(tokens[1]) THEN ParseScalar(tokens[1])
        ELSE IF n >= 2 /\ tokens[1] = P("[") /\ tokens[n] = P("]")
                /\ (m = 0 \/ m % 2 = 1)
                /\ \A i \in 1..m : IF i % 2 = 1 THEN IsScalarToken(inner[i])
                                   ELSE inner[i] = P(",")
        THEN Arr([i \in 1..((m + 1) \div 2) |-> ParseScalar(inner[2 * i - 1])])
        ELSE IF n >= 2 /\ tokens[1] = P("{") /\ tokens[n] = P("}")
                /\ (m = 0 \/ m % 4 = 3)
                /\ \A i \in 1..m :
                     CASE i % 4 = 1 -> inner[i][1] = "s"
                       [] i % 4 = 2 -> inner[i] = P(":")
                       [] i % 4 = 3 -> IsScalarToken(inner[i])
                       [] OTHER -> inner[i] = P(",")
        THEN Obj([i \in 1..((m + 1) \div 4) |->
                    <<inner[4 * i - 3][2], ParseScalar(inner[4 * i - 1])>>])
        ELSE SyntaxError

\* ------------------------------------------------------------ model text
\* The text a model call returns is a sequence of segments: prose without
\* braces, a well-formed JSON object (v is the value it denotes), a
\* brace-delimited chunk that is not JSON, a lone '{' or a lone '}'.
Prose == [k |-> "prose", v |-> Null]
Bad == [k |-> "bad", v |-> Null]
Open == [k |-> "open", v |-> Null]
Close == [k |-> "close", v |-> Null]
ObjText(o) == [k |-> "obj", v |-> o]

HasOpen(seg) == seg.k \in {"obj", "bad", "open"}
HasClose(seg) == seg.k \in {"obj", "bad", "close"}

\* text.match(/\{[\s\S]*\}/): from the first '{' that has a '}' after it to
\* the last '}' of the text (the quantifier is greedy); <<>> stands for null
jsonMatch(text) ==
    LET closes == {j \in 1..Len(text) : HasClose(text[j])}
        last == CHOOSE j \in closes : \A j2 \in closes : j2 <= j
        opens == {i \in 1..Len(text) : HasOpen(text[i]) /\ i <= last}
        first == CHOOSE i \in opens : \A i2 \in opens : i <= i2
    IN  IF closes = {} THEN <<>>
        ELSE IF opens = {} THEN <<>>
        ELSE SubSeq(text, first, last)

\* JSON.parse(jsonMatch[0]): the object when the match is exactly one
\* well-formed object, SyntaxError otherwise
ParseMatch(m) == IF Len(m) = 1 /\ m[1].k = "obj" THEN m[1].v ELSE SyntaxError

\* env.AI.run either throws or resolves to { response?: string }
Throws == [threw |-> TRUE, text |-> <<>>]
Responds(text) == [threw |-> FALSE, text |-> text]

\* ------------------------------------------------------------- classifier
Fallback == [sentiment |-> Str("neutral"), urgency |-> Str("medium"),
             themes |-> Str("general")]

\* the model call and the parsing of its text
analyseFeedback(ai) ==
    IF ai.threw THEN Fallback
    ELSE LET m == jsonMatch(ai.text)
             parsed == ParseMatch(m)
         IN  IF m = <<>> THEN Fallback
             ELSE IF parsed = SyntaxError THEN Fallback
             ELSE [sentiment |-> OrElse(Prop(parsed, "sentiment"), Str("neutral")),
                   urgency |-> OrElse(Prop(parsed, "urgency"), Str("medium")),
                   themes |-> OrElse(Prop(parsed, "themes"), Str("general"))]

\* objects the model may answer a classification prompt with
cGood == Obj(<<<<"sentiment", Str("negative")>>, <<"urgency", Str("high")>>,
               <<"themes", Str("performance")>>>>)
cFalsy == Obj(<<<<"sentiment", Null>>, <<"urgency", Str("")>>>>)
cOdd == Obj(<<<<"sentiment", Str("mixed")>>, <<"urgency", Str("critical")>>,
              <<"themes", Str("bug")>>>>)
cList == Obj(<<<<"sentiment", Str("positive")>>, <<"urgency", Str("low")>>,
               <<"themes", Arr(<<Str("bug"), Str("billing")>>)>>>>)

ClassifyOutcomes ==
    {Throws, Responds(<<>>), Responds(<<Prose>>), Responds(<<Bad>>),
     Responds(<<ObjText(cGood)>>), Responds(<<Prose, ObjText(cGood), Prose>>),
     Responds(<<ObjText(cFalsy)>>), Responds(<<ObjText(cOdd)>>),
     Responds(<<ObjText(cList)>>),
     Responds(<<ObjText(cGood), Prose, ObjText(cOdd)>>),
     Responds(<<ObjText(cGood), Prose, Close>>),
     Responds(<<Open, Prose>>)}

\* --------------------------------------------------------------- fixtures
\* mockFeedback: created_at is computed once, when the module is loaded
Mock(source, content, author, agoMs) ==
    [source |-> Str(source), content |-> Str(content), author |-> Str(author),
     created_at |-> toISOString(LoadTime - (agoMs \div HalfHourMs))]

mockFeedback ==
    << Mock("discord", "deploy slow", "dev_sarah", 3600000),
       Mock("github", "wrangler dev crashes", "clouduser42", 7200000),
       Mock("support_ticket", "503 errors", "enterprise_client", 1800000),
       Mock("twitter", "DX is incredible", "@happy_developer", 5400000),
       Mock("discord", "CPU time limit", "ml_engineer", 9000000),
       Mock("github", "WebSockets in DO", "realtime_dev", 10800000),
       Mock("support_ticket", "billing question", "startup_founder", 14400000),
       Mock("twitter", "docs are confusing", "@frustrated_coder", 18000000),
       Mock("discord", "love Workers AI", "ai_enthusiast", 21600000),
       Mock("github", "documentation bug", "docs_contributor", 25200000),
       Mock("support_ticket", "migrate from Lambda", "migration_team", 28800000),
       Mock("twitter", "pricing is unbeatable", "@cost_saver", 32400000) >>

\* ------------------------------------------------------------------ state
VARIABLES
    feedbackTable,  \* the feedback table has been created
    digestsTable,   \* the digests table has been created
    feedback,       \* rows of the feedback table, in insertion order
    digests,        \* rows of the digests table, in insertion order
    clock,          \* the current half-hour
    seeds,          \* POST /api/seed requests started so far
    inflight,       \* the requests suspended at a store call
    resp            \* the response sent by the last step, if it sent one

vars == <<feedbackTable, digestsTable, feedback, digests, clock, seeds,
          inflight, resp>>

Slots == 1..MaxInflight
Idle == [kind |-> "idle", i |-> 0, count |-> 0, data |-> Null, ai |-> 0, text |-> <<>>]
NoResp == [route |-> "none", status |-> 0, body |-> Null, req |-> Null, ai |-> 0,
           text |-> <<>>]

HasFree == \E s \in Slots : inflight[s].kind = "idle"
FreeSlot == CHOOSE s \in Slots :
                /\ inflight[s].kind = "idle"
                /\ \A s2 \in Slots : inflight[s2].kind = "idle" => s <= s2

Init ==
    /\ feedbackTable = FALSE
    /\ digestsTable = FALSE
    /\ feedback = <<>>
    /\ digests = <<>>
    /\ clock = LoadTime
    /\ seeds = 0
    /\ inflight = [s \in Slots |-> Idle]
    /\ resp = NoResp

\* ------------------------------------------------------------------ store
\* D1's bind accepts null, numbers and strings; undefined, arrays and plain
\* objects make it throw D1_TYPE_ERROR (hence the `|| null` on author)
D1Supported(x) == x.k \in {"null", "string", "text", "number"}

\* SQL leaves the order of rows with equal sort keys to the engine: a query
\* meets them in rowid order, ascending or descending
TieOrders == {"asc", "desc"}

\* ORDER BY created_at DESC: a comes before b
RowBefore(a, b, ties) ==
    \/ TsLess(b.created_at, a.created_at)
    \/ /\ a.created_at = b.created_at
       /\ IF ties = "asc" THEN a.id < b.id ELSE a.id > b.id

RECURSIVE SortRows(_, _)
SortRows(S, ties) ==
    IF S = {} THEN <<>>
    ELSE LET r == CHOOSE x \in S : \A o \in S \ {x} : RowBefore(x, o, ties)
         IN  <<r>> \o SortRows(S \ {r}, ties)

Range(seq) == {seq[i] : i \in 1..Len(seq)}
Limit(seq, n) == SubSeq(seq, 1, IF Len(seq) < n THEN Len(seq) ELSE n)

\* SELECT * FROM <table> ORDER BY created_at DESC
OrderByCreatedAtDesc(rows, ties) == SortRows(Range(rows), ties)

\* ----------------------------------------------------------------- router
Response(status, body) == [threw |-> FALSE, error |-> "", status |-> status, body |-> body]
Thrown(error) == [threw |-> TRUE, error |-> error, status |-> 0, body |-> Null]

\* the routes called without the catch around them
fetchRethrows(route, out, req, ai) ==
    [route |-> route, status |-> out.status, body |-> out.body, req |-> req, ai |-> ai,
     text |-> <<>>]

\* the try/catch of fetch around the route handlers
fetch(route, out, req, ai) ==
    IF out.threw
    THEN [route |-> route, status |-> 500,
          body |-> [error |-> "Internal Server Error", details |-> out.error],
          req |-> req, ai |-> ai, text |-> <<>>]
    ELSE [route |-> route, status |-> out.status, body |-> out.body,
          req |-> req, ai |-> ai, text |-> <<>>]

\* the response of a request, with the text its last model call returned
Heard(r, text) == [r EXCEPT !.text = text]

\* ------------------------------------------------------ POST /api/feedback
\* a JSON object body; a field that is undefined is left out
BodyObj(source, content, author) ==
    Obj(SelectSeq(<<<<"source", source>>, <<"content", content>>,
                    <<"author", author>>>>,
                  LAMBDA p : p[2].k # "undefined"))

\* what request.json() meets: text that is not JSON, the JSON null, an object
Bodies ==
    {[readable |-> FALSE, json |-> Undefined], [readable |-> TRUE, json |-> Null]}
    \cup {[readable |-> TRUE, json |-> BodyObj(s, Str("Deploys are too slow"), Undefined)] :
            s \in {Undefined, Str(""), Str("discord")}}
    \cup {[readable |-> TRUE, json |-> BodyObj(Str("discord"), c, Undefined)] :
            c \in {Undefined, Str("")}}

\* !body.source || !body.content
MissingRequired(json) ==
    ~Truthy(Prop(json, "source")) \/ ~Truthy(Prop(json, "content"))

\* INSERT INTO feedback: the values bound, in column order
FeedbackValues(source, content, author, analysis) ==
    <<source, content, OrElse(author, Null),
      analysis.sentiment, analysis.urgency, analysis.themes>>

Unavailable == "D1_ERROR: store unavailable"
NoSuchTable == "D1_ERROR: no such table"

\* the error the insert raises, "" when it succeeds
InsertFeedbackError(values, dbOk) ==
    IF \E i \in 1..Len(values) : ~D1Supported(values[i]) THEN "D1_TYPE_ERROR"
    ELSE IF ~dbOk THEN Unavailable
    ELSE IF ~feedbackTable THEN NoSuchTable
    ELSE IF values[1].k = "null" \/ values[2].k = "null"
    THEN "D1_ERROR: NOT NULL constraint failed"
    ELSE ""

\* the new row; processed_at, which no query orders by or selects on, is
\* left out
FeedbackRow(values, created_at) ==
    [id |-> Len(feedback) + 1, source |-> values[1], content |-> values[2],
     author |-> values[3], sentiment |-> values[4], urgency |-> values[5],
     themes |-> values[6], created_at |-> created_at]

Triple(row) == [sentiment |-> row.sentiment, urgency |-> row.urgency,
                themes |-> row.themes]
NumPosted == Cardinality({i \in 1..Len(feedback) : feedback[i].created_at.fmt = "sql"})
NumAnswered == Cardinality({i \in 1..Len(feedback) : Triple(feedback[i]) # Fallback})
\* the rows the seeding in progress has yet to insert
RECURSIVE SumOver(_, _)
SumOver(S, f) == IF S = {} THEN 0
                 ELSE LET x == CHOOSE y \in S : TRUE
                      IN  f[x] + SumOver(S \ {x}, f)
NumPending ==
    SumOver(Slots, [s \in Slots |-> IF inflight[s].kind = "seed"
                                    THEN Len(mockFeedback) + 1 - inflight[s].i
                                    ELSE 0])
\* the row may be added within the bounds of the model
WithinBounds(row, posted) ==
    /\ posted => NumPosted < MaxPosts /\ Len(feedback) + NumPending < MaxRows
    /\ Triple(row) # Fallback => NumAnswered < MaxAnswered

\* no response is on its way out
Ready == resp = NoResp

handleAddFeedback ==
    /\ Ready
    /\ \E body \in Bodies :
         LET route == "POST /api/feedback"
             json == body.json
         IN  IF ~body.readable
             THEN /\ resp' = fetch(route, Thrown("SyntaxError"), body, 0)
                  /\ feedback' = feedback
             ELSE IF json.k = "null"
             THEN /\ resp' = fetch(route, Thrown("TypeError"), body, 0)
                  /\ feedback' = feedback
             ELSE IF MissingRequired(json)
             THEN /\ resp' = fetch(route,
                                   Response(400, [error |-> "source and content are required"]),
                                   body, 0)
                  /\ feedback' = feedback
             ELSE \E ai \in ClassifyOutcomes, dbOk \in BOOLEAN :
                    LET analysis == analyseFeedback(ai)
                        values == FeedbackValues(Prop(json, "source"),
                                                 Prop(json, "content"),
                                                 Prop(json, "author"), analysis)
                        err == InsertFeedbackError(values, dbOk)
                        row == FeedbackRow(values, CurrentTimestamp(clock))
                    IN  IF err # ""
                        THEN /\ resp' = Heard(fetch(route, Thrown(err), body, 1), ai.text)
                             /\ feedback' = feedback
                        ELSE /\ WithinBounds(row, TRUE)
                             /\ feedback' = Append(feedback, row)
                             /\ resp' = Heard(fetch(route,
                                                    Response(200, [success |-> TRUE,
                                                                   id |-> row.id,
                                                                   analysis |-> analysis]),
                                                    body, 1),
                                              ai.text)
    /\ UNCHANGED <<feedbackTable, digestsTable, digests, clock, seeds, inflight>>

\* ------------------------------------------------------- GET /api/feedback
handleGetFeedback ==
    /\ Ready
    /\ \E dbOk \in BOOLEAN, ties \in TieOrders :
         LET out == IF ~dbOk THEN Thrown(Unavailable)
                    ELSE IF ~feedbackTable THEN Thrown(NoSuchTable)
                    ELSE Response(200, OrderByCreatedAtDesc(feedback, ties))
         IN  resp' = fetch("GET /api/feedback", out, Null, 0)
    /\ UNCHANGED <<feedbackTable, digestsTable, feedback, digests, clock, seeds,
                   inflight>>

\* ----------------------------------------------------------------- others
\* OPTIONS is answered before the routes are tried
handleOptions ==
    /\ Ready
    /\ resp' = [route |-> "OPTIONS", status |-> 200, body |-> Null, req |-> Null, ai |-> 0,
                text |-> <<>>]
    /\ UNCHANGED <<feedbackTable, digestsTable, feedback, digests, clock, seeds,
                   inflight>>

handleHome ==
    /\ Ready
    /\ resp' = fetch("GET /", Response(200, "html"), Null, 0)
    /\ UNCHANGED <<feedbackTable, digestsTable, feedback, digests, clock, seeds,
                   inflight>>

NotFound ==
    /\ Ready
    /\ resp' = fetch("unmatched", Response(404, [error |-> "Not Found"]), Null, 0)
    /\ UNCHANGED <<feedbackTable, digestsTable, feedback, digests, clock, seeds,
                   inflight>>

\* the response leaves the Worker
respond ==
    /\ resp # NoResp
    /\ resp' = NoResp
    /\ UNCHANGED <<feedbackTable, digestsTable, feedback, digests, clock, seeds,
                   inflight>>

\* time passes
Tick ==
    /\ Ready
    /\ clock < LoadTime + MaxTicks
    /\ clock' = clock + 1
    /\ UNCHANGED <<feedbackTable, digestsTable, feedback, digests, seeds, inflight,
                   resp>>

\* ------------------------------------------------ POST /api/digest/generate
DefaultDigest ==
    Obj(<<<<"summary", Str("Unable to generate summary")>>,
          <<"top_themes", Arr(<<>>)>>,
          <<"urgent_items", Arr(<<>>)>>,
          <<"sentiment_breakdown",
            Obj(<<<<"positive", Num(0)>>, <<"neutral", Num(0)>>, <<"negative", Num(0)>>>>)>>,
          <<"recommendations", Arr(<<>>)>>>>)

\* objects the model may answer the digest prompt with
dFull ==
    Obj(<<<<"summary", Str("Deploys are slow and checkout fails")>>,
          <<"top_themes", Arr(<<Str("performance"), Str("billing")>>)>>,
          <<"urgent_items", Arr(<<Str("checkout 503")>>)>>,
          <<"sentiment_breakdown",
            Obj(<<<<"positive", Num(1)>>, <<"neutral", Num(0)>>, <<"negative", Num(2)>>>>)>>,
          <<"recommendations", Arr(<<Str("speed up deploys")>>)>>>>)
Without(obj, key) == Obj(SelectSeq(obj.v, LAMBDA p : p[1] # key))
With(obj, key, val) ==
    Obj([i \in 1..Len(obj.v) |-> IF obj.v[i][1] = key THEN <<key, val>> ELSE obj.v[i]])
dNoSummary == Without(dFull, "summary")
dNullSummary == With(dFull, "summary", Null)
dNoThemes == Without(dFull, "top_themes")
dNullThemes == With(dFull, "top_themes", Null)
dNoBreakdown == Without(dFull, "sentiment_breakdown")

DigestOutcomes ==
    {Throws, Responds(<<>>), Responds(<<Prose>>), Responds(<<Bad>>),
     Responds(<<Prose, ObjText(dFull)>>), Responds(<<ObjText(dNoSummary)>>),
     Responds(<<ObjText(dNullSummary)>>), Responds(<<ObjText(dNoThemes)>>),
     Responds(<<ObjText(dNullThemes)>>), Responds(<<ObjText(dNoBreakdown)>>),
     Responds(<<ObjText(dFull), Prose, ObjText(dFull)>>)}

\* the try block: digestData keeps its default unless a match parses
DigestData(ai) ==
    IF ai.threw THEN DefaultDigest
    ELSE LET m == jsonMatch(ai.text)
             parsed == ParseMatch(m)
         IN  IF m = <<>> THEN DefaultDigest
             ELSE IF parsed = SyntaxError THEN DefaultDigest
             ELSE parsed

\* the guard left out
NoFeedbackNever(results) == FALSE

\* feedback.results.length === 0
NoFeedback(results) == Len(results) = 0

\* SELECT * FROM feedback ORDER BY created_at DESC LIMIT 50
RecentFeedback(ties) == Limit(OrderByCreatedAtDesc(feedback, ties), DigestLimit)

NumGenerating == Cardinality({s \in Slots : inflight[s].kind = "generate"})

\* the feedback query, the prompt and the model call
handleGenerateDigest ==
    /\ Ready
    /\ \E dbOk \in BOOLEAN, ties \in TieOrders :
         LET route == "POST /api/digest/generate"
             results == RecentFeedback(ties)
         IN  IF ~dbOk \/ ~feedbackTable
             THEN /\ resp' = fetch(route,
                                   Thrown(IF ~dbOk THEN Unavailable ELSE NoSuchTable),
                                   Null, 0)
                  /\ inflight' = inflight
             ELSE IF NoFeedback(results)
             THEN /\ resp' = fetch(route,
                                   Response(400, [error |-> "No feedback to analyse"]),
                                   Null, 0)
                  /\ inflight' = inflight
             ELSE \E ai \in DigestOutcomes :
                    /\ HasFree
                    /\ Len(digests) + NumGenerating < MaxDigests
                    /\ inflight' = [inflight EXCEPT ![FreeSlot] =
                                      [kind |-> "generate", i |-> 0,
                                       count |-> Len(results),
                                       data |-> DigestData(ai), ai |-> 1,
                                       text |-> ai.text]]
                    /\ resp' = resp
    /\ UNCHANGED <<feedbackTable, digestsTable, feedback, digests, clock, seeds>>

\* two columns bound in each other's place
DigestValuesSwapped(digestData, count) ==
    <<Prop(digestData, "summary"),
      JSONstringify(Prop(digestData, "urgent_items")),
      JSONstringify(Prop(digestData, "top_themes")),
      JSONstringify(Prop(digestData, "sentiment_breakdown")),
      Num(count)>>

\* INSERT INTO digests: the values bound, in column order
DigestValues(digestData, count) ==
    <<Prop(digestData, "summary"),
      JSONstringify(Prop(digestData, "top_themes")),
      JSONstringify(Prop(digestData, "urgent_items")),
      JSONstringify(Prop(digestData, "sentiment_breakdown")),
      Num(count)>>

InsertDigestError(values, dbOk) ==
    IF \E i \in 1..Len(values) : ~D1Supported(values[i]) THEN "D1_TYPE_ERROR"
    ELSE IF ~dbOk THEN Unavailable
    ELSE IF ~digestsTable THEN NoSuchTable
    ELSE IF values[1].k = "null" THEN "D1_ERROR: NOT NULL constraint failed"
    ELSE ""

DigestRow(values) ==
    [id |-> Len(digests) + 1, summary |-> values[1], top_themes |-> values[2],
     urgent_items |-> values[3], sentiment_breakdown |-> values[4],
     feedback_count |-> values[5].v, created_at |-> CurrentTimestamp(clock)]

\* the insert replacing the digest kept so far
storeDigestKeepingLatest(s) ==
    /\ Ready
    /\ inflight[s].kind = "generate"
    /\ \E dbOk \in BOOLEAN :
         LET route == "POST /api/digest/generate"
             r == inflight[s]
             values == DigestValues(r.data, r.count)
             err == InsertDigestError(values, dbOk)
         IN  IF err # ""
             THEN /\ resp' = Heard(fetch(route, Thrown(err), Null, r.ai), r.text)
                  /\ digests' = digests
             ELSE /\ digests' = <<DigestRow(values)>>
                  /\ resp' = Heard(fetch(route,
                                         Response(200, [success |-> TRUE,
                                                        digest |-> r.data,
                                                        feedback_count |-> r.count]),
                                         Null, r.ai),
                                   r.text)
    /\ inflight' = [inflight EXCEPT ![s] = Idle]
    /\ UNCHANGED <<feedbackTable, digestsTable, feedback, clock, seeds>>

\* the digest insert and the response
storeDigest(s) ==
    /\ Ready
    /\ inflight[s].kind = "generate"
    /\ \E dbOk \in BOOLEAN :
         LET route == "POST /api/digest/generate"
             r == inflight[s]
             values == DigestValues(r.data, r.count)
             err == InsertDigestError(values, dbOk)
         IN  IF err # ""
             THEN /\ resp' = Heard(fetch(route, Thrown(err), Null, r.ai), r.text)
                  /\ digests' = digests
             ELSE /\ digests' = Append(digests, DigestRow(values))
                  /\ resp' = Heard(fetch(route,
                                         Response(200, [success |-> TRUE,
                                                        digest |-> r.data,
                                                        feedback_count |-> r.count]),
                                         Null, r.ai),
                                   r.text)
    /\ inflight' = [inflight EXCEPT ![s] = Idle]
    /\ UNCHANGED <<feedbackTable, digestsTable, feedback, clock, seeds>>

\* --------------------------------------------------------- GET /api/digest
\* SELECT * FROM digests ORDER BY created_at DESC LIMIT 1, then .first()
LatestDigest(ties) == Limit(OrderByCreatedAtDesc(digests, ties), 1)

\* JSON.parse(column || fallback)
ParseColumn(column, fallback) == JSONparse(OrElse(column, Text(fallback)).v)

\* the digest with its JSON columns decoded
DecodedDigest(result) ==
    [id |-> result.id, summary |-> result.summary,
     top_themes |-> ParseColumn(result.top_themes, <<P("["), P("]")>>),
     urgent_items |-> ParseColumn(result.urgent_items, <<P("["), P("]")>>),
     sentiment_breakdown |-> ParseColumn(result.sentiment_breakdown, <<P("{"), P("}")>>),
     feedback_count |-> result.feedback_count,
     created_at |-> result.created_at]

handleGetDigest ==
    /\ Ready
    /\ \E dbOk \in BOOLEAN, ties \in TieOrders :
         LET found == LatestDigest(ties)
             digest == DecodedDigest(found[1])
             out == IF ~dbOk THEN Thrown(Unavailable)
                    ELSE IF ~digestsTable THEN Thrown(NoSuchTable)
                    ELSE IF found = <<>>
                    THEN Response(404, [error |-> "No digest available. Generate one first."])
                    ELSE IF SyntaxError \in {digest.top_themes, digest.urgent_items,
                                             digest.sentiment_breakdown}
                    THEN Thrown("SyntaxError")
                    ELSE Response(200, digest)
         IN  resp' = fetch("GET /api/digest", out, Null, 0)
    /\ UNCHANGED <<feedbackTable, digestsTable, feedback, digests, clock, seeds,
                   inflight>>

\* ------------------------------------------------------ GET /webhook/slack
Placeholder == [text |-> "No digest available yet. Visit the dashboard to generate one."]

\* items.map(t => `• ${t}`).join('\n') || none
Bullets(items, none) == IF Len(items.v) = 0 THEN Str(none) ELSE items

\* the blocks of the message, by what each one interpolates
SlackMessage(result, topThemes, urgentItems, sentimentBreakdown) ==
    [header |-> "Daily Feedback Pulse",
     summary |-> result.summary,
     sentiment |-> <<OrElse(Prop(sentimentBreakdown, "positive"), Num(0)),
                     OrElse(Prop(sentimentBreakdown, "neutral"), Num(0)),
                     OrElse(Prop(sentimentBreakdown, "negative"), Num(0))>>,
     themes |-> Bullets(topThemes, "None identified"),
     urgent |-> Bullets(urgentItems, "None"),
     context |-> [feedback_count |-> result.feedback_count,
                  created_at |-> result.created_at]]

handleSlackWebhook ==
    /\ Ready
    /\ \E dbOk \in BOOLEAN, ties \in TieOrders :
         LET found == LatestDigest(ties)
             result == found[1]
             topThemes == ParseColumn(result.top_themes, <<P("["), P("]")>>)
             urgentItems == ParseColumn(result.urgent_items, <<P("["), P("]")>>)
             sentimentBreakdown ==
                 ParseColumn(result.sentiment_breakdown, <<P("{"), P("}")>>)
             out == IF ~dbOk THEN Thrown(Unavailable)
                    ELSE IF ~digestsTable THEN Thrown(NoSuchTable)
                    ELSE IF found = <<>> THEN Response(200, Placeholder)
                    ELSE IF SyntaxError \in {topThemes, urgentItems, sentimentBreakdown}
                    THEN Thrown("SyntaxError")
                    \* a property read on null, map called on what is no array
                    ELSE IF sentimentBreakdown.k = "null" \/ topThemes.k # "array"
                            \/ urgentItems.k # "array"
                    THEN Thrown("TypeError")
                    ELSE Response(200, SlackMessage(result, topThemes, urgentItems,
                                                    sentimentBreakdown))
         IN  resp' = fetch("GET /webhook/slack", out, Null, 0)
    /\ UNCHANGED <<feedbackTable, digestsTable, feedback, digests, clock, seeds,
                   inflight>>

\* ---------------------------------------------------------- POST /api/seed
\* the loop with each insert in a try of its own: a failed item is skipped
seedItemCarriesOn(s, i, ai, dbOk) ==
    LET route == "POST /api/seed"
        item == mockFeedback[i]
        analysis == analyseFeedback(ai)
        values == FeedbackValues(item.source, item.content, item.author, analysis)
        err == InsertFeedbackError(values, dbOk)
        row == FeedbackRow(values, item.created_at)
    IN  /\ IF err # ""
           THEN /\ feedback' = feedback
                /\ IF i = Len(mockFeedback)
                   THEN /\ resp' = Heard(fetch(route,
                                               Response(200, [success |-> TRUE,
                                                              seededCount |-> inflight[s].count]),
                                               Null, i),
                                         ai.text)
                        /\ inflight' = [inflight EXCEPT ![s] = Idle]
                   ELSE /\ resp' = resp
                        /\ inflight' = [inflight EXCEPT ![s] =
                                          [kind |-> "seed", i |-> i + 1,
                                           count |-> inflight[s].count,
                                           data |-> Null, ai |-> i, text |-> <<>>]]
           ELSE /\ WithinBounds(row, FALSE)
                /\ feedback' = Append(feedback, row)
                /\ IF i = Len(mockFeedback)
                   THEN /\ resp' = Heard(fetch(route,
                                               Response(200, [success |-> TRUE,
                                                              seededCount |-> i]),
                                               Null, i),
                                         ai.text)
                        /\ inflight' = [inflight EXCEPT ![s] = Idle]
                   ELSE /\ resp' = resp
                        /\ inflight' = [inflight EXCEPT ![s] =
                                          [kind |-> "seed", i |-> i + 1, count |-> i,
                                           data |-> Null, ai |-> i, text |-> <<>>]]
        /\ UNCHANGED <<feedbackTable, digestsTable, digests, clock>>

\* one turn of the loop: classify mockFeedback[i], insert it, and respond
\* after the last one
seedItem(s, i, ai, dbOk) ==
    LET route == "POST /api/seed"
        item == mockFeedback[i]
        analysis == analyseFeedback(ai)
        values == FeedbackValues(item.source, item.content, item.author, analysis)
        err == InsertFeedbackError(values, dbOk)
        row == FeedbackRow(values, item.created_at)
    IN  /\ IF err # ""
           THEN /\ resp' = Heard(fetch(route, Thrown(err), Null, i), ai.text)
                /\ feedback' = feedback
                /\ inflight' = [inflight EXCEPT ![s] = Idle]
           ELSE /\ WithinBounds(row, FALSE)
                /\ feedback' = Append(feedback, row)
                /\ IF i = Len(mockFeedback)
                   THEN /\ resp' = Heard(fetch(route,
                                               Response(200, [success |-> TRUE,
                                                              seededCount |-> i]),
                                               Null, i),
                                         ai.text)
                        /\ inflight' = [inflight EXCEPT ![s] = Idle]
                   ELSE /\ resp' = resp
                        /\ inflight' = [inflight EXCEPT ![s] =
                                          [kind |-> "seed", i |-> i + 1, count |-> i,
                                           data |-> Null, ai |-> i, text |-> <<>>]]
        /\ UNCHANGED <<feedbackTable, digestsTable, digests, clock>>

\* the request arrives and the first item is handled
handleSeedData ==
    /\ Ready
    /\ seeds < MaxSeeds
    /\ NumPosted + NumPending + Len(mockFeedback) <= MaxRows
    /\ HasFree
    /\ seeds' = seeds + 1
    /\ \E ai \in ClassifyOutcomes, dbOk \in BOOLEAN : seedItem(FreeSlot, 1, ai, dbOk)

\* the loop resumes with the next item
seedNext(s) ==
    /\ Ready
    /\ inflight[s].kind = "seed"
    /\ seeds' = seeds
    /\ \E ai \in ClassifyOutcomes, dbOk \in BOOLEAN :
         seedItem(s, inflight[s].i, ai, dbOk)

\* ---------------------------------------------------------- POST /api/init
InitFailed == Response(500, [success |-> FALSE, error |-> Unavailable])

\* CREATE TABLE IF NOT EXISTS feedback
handleInitDb ==
    /\ Ready
    /\ \E dbOk \in BOOLEAN :
         IF dbOk
         THEN /\ HasFree
              /\ feedbackTable' = TRUE
              /\ inflight' = [inflight EXCEPT ![FreeSlot] =
                                [kind |-> "init", i |-> 0, count |-> 0,
                                 data |-> Null, ai |-> 0, text |-> <<>>]]
              /\ resp' = resp
         ELSE /\ feedbackTable' = feedbackTable
              /\ inflight' = inflight
              /\ resp' = fetch("POST /api/init", InitFailed, Null, 0)
    /\ UNCHANGED <<digestsTable, feedback, digests, clock, seeds>>

\* CREATE TABLE IF NOT EXISTS digests, and the response
createDigests(s) ==
    /\ Ready
    /\ inflight[s].kind = "init"
    /\ \E dbOk \in BOOLEAN :
         /\ digestsTable' = (digestsTable \/ dbOk)
         /\ resp' = fetch("POST /api/init",
                          IF dbOk
                          THEN Response(200, [success |-> TRUE,
                                              message |-> "Database initialized"])
                          ELSE InitFailed,
                          Null, 0)
    /\ inflight' = [inflight EXCEPT ![s] = Idle]
    /\ UNCHANGED <<feedbackTable, feedback, digests, clock, seeds>>

\* ---------------------------------------------------------- specification
\* the routes that do not touch the store
Static == handleOptions \/ handleHome \/ NotFound

\* the routes of the feedback table
Intake ==
    \/ handleSeedData
    \/ \E s \in Slots : seedNext(s)
    \/ handleAddFeedback
    \/ handleGetFeedback

\* the routes of the digests table
Digesting ==
    \/ handleGenerateDigest
    \/ \E s \in Slots : storeDigest(s)
    \/ handleGetDigest
    \/ handleSlackWebhook

Setup == handleInitDb \/ \E s \in Slots : createDigests(s)

Next == Static \/ Setup \/ Intake \/ Digesting \/ respond \/ Tick

Spec == Init /\ [][Next]_vars

\* the Worker after POST /api/init has created both tables, while nobody
\* asks for a digest
Created ==
    /\ feedbackTable = TRUE
    /\ digestsTable = TRUE
    /\ feedback = <<>>
    /\ digests = <<>>
    /\ clock = LoadTime
    /\ seeds = 0
    /\ inflight = [s \in Slots |-> Idle]
    /\ resp = NoResp

\* feedback is posted while at most MaxSeedsAmongPosts seeds run
NextIntake ==
    \/ Static
    \/ (seeds < MaxSeedsAmongPosts /\ handleSeedData)
    \/ \E s \in Slots : seedNext(s)
    \/ handleAddFeedback
    \/ handleGetFeedback
    \/ respond
    \/ Tick
SpecIntake == Created /\ [][NextIntake]_vars

\* the Worker while nobody seeds: feedback arrives by POST /api/feedback only
NextDigest ==
    \/ Setup
    \/ handleAddFeedback
    \/ Digesting
    \/ respond
    \/ Tick
SpecDigest == Init /\ [][NextDigest]_vars

\* the Worker while it is seeded again and again and nobody posts
NextSeed ==
    \/ handleSeedData
    \/ \E s \in Slots : seedNext(s)
    \/ handleGetFeedback
    \/ respond
SpecSeed == Created /\ [][NextSeed]_vars

\* the Worker while nobody seeds, every other route being served
NextServe ==
    \/ Static
    \/ Setup
    \/ handleAddFeedback
    \/ handleGetFeedback
    \/ Digesting
    \/ respond
    \/ Tick
SpecServe == Init /\ [][NextServe]_vars

\* ================================================================= claims
IsPost(r) == r.route = "POST /api/feedback"
IsGenerate(r) == r.route = "POST /api/digest/generate"
\* the request failed because the store did
StoreFault(r) == r.status = 500 /\ r.body.details \in {Unavailable, NoSuchTable}
\* a required field that is missing or empty
EmptyField(json, key) == Prop(json, key) \in {Undefined, Null, Str("")}
IsJsonObject(body) == body.readable /\ body.json.k = "object"
Last(seq) == seq[Len(seq)]
Min(a, b) == IF a < b THEN a ELSE b

\* C1: every POST /api/feedback whose source or content is missing or empty
\* is answered 400 and leaves the feedback table as it was.
C1_MissingIs400 ==
    [][(Ready /\ IsPost(resp')
        /\ (EmptyField(resp'.req.json, "source") \/ EmptyField(resp'.req.json, "content")))
         => /\ resp'.status = 400
            /\ feedback' = feedback]_vars

\* C2: every POST /api/feedback with non-empty source and content that the
\* store serves adds exactly one row, whose sentiment, urgency and themes
\* are not null and are the triple returned, whatever the model answers.
C2_OneRowWhateverTheModel ==
    [][(Ready /\ IsPost(resp') /\ IsJsonObject(resp'.req)
        /\ ~EmptyField(resp'.req.json, "source")
        /\ ~EmptyField(resp'.req.json, "content")
        /\ ~StoreFault(resp'))
         => /\ resp'.status = 200
            /\ Len(feedback') = Len(feedback) + 1
            /\ SubSeq(feedback', 1, Len(feedback)) = feedback
            /\ Triple(Last(feedback')) = resp'.body.analysis
            /\ \A f \in {"sentiment", "urgency", "themes"} :
                 resp'.body.analysis[f].k \notin {"null", "undefined"}]_vars

\* C3: a digest request that reads an empty feedback table is answered 400,
\* calls no model, goes no further and inserts no digest row.
C3_EmptyIs400 ==
    [][(feedbackTable /\ Len(feedback) = 0)
         => /\ digests' = digests
            /\ \A s \in Slots : inflight'[s].kind # "generate"
            /\ (Ready /\ IsGenerate(resp') /\ ~StoreFault(resp'))
                 => (resp'.status = 400 /\ resp'.ai = 0)]_vars

C3_Witness ==
    /\ IsGenerate(resp)
    /\ resp.status = 400
    /\ feedbackTable
    /\ Len(feedback) = 0
    /\ digests = <<>>

\* C4: a digest request that reads N >= 1 rows keeps min(N, 50) as its
\* count and, unless the store fails, inserts exactly one digest row with
\* that count and returns it, whatever was inserted since the read.
C4_OneDigestWithSnapshotCount ==
    [][\A s \in Slots :
         /\ (inflight[s].kind = "idle" /\ inflight'[s].kind = "generate")
              => inflight'[s].count = Min(Len(feedback), DigestLimit)
         /\ (inflight[s].kind = "generate" /\ inflight'[s].kind = "idle"
             /\ ~StoreFault(resp'))
              => /\ Len(digests') = Len(digests) + 1
                 /\ Last(digests').feedback_count = inflight[s].count
                 /\ resp'.status = 200
                 /\ resp'.body.feedback_count = inflight[s].count]_vars

\* C5: once a digest request has read at least one row, no answer of the
\* model makes it fail: it is answered with success and a digest row is
\* inserted.
C5_ModelNeverFailsDigest ==
    [][\A s \in Slots :
         (inflight[s].kind = "generate" /\ inflight'[s].kind = "idle"
          /\ ~StoreFault(resp'))
           => (resp'.status = 200 /\ resp'.body.success
               /\ digests' # digests)]_vars

\* C6: GET /api/digest returns the digest created last, and of two digests
\* with the same created_at the one inserted later; the webhook reads the
\* same one.
C6_LatestIsLastInserted ==
    /\ (resp.route = "GET /api/digest" /\ resp.status = 200)
         => resp.body.id = Len(digests)
    /\ (resp.route = "GET /webhook/slack" /\ resp.status = 200 /\ digests # <<>>)
         => /\ resp.body.summary = Last(digests).summary
            /\ resp.body.context.feedback_count = Last(digests).feedback_count
            /\ resp.body.context.created_at = Last(digests).created_at

\* C7: GET /api/feedback lists every row, newest creation instant first; a
\* row just posted, newer than every other row, comes first, also among
\* seeded rows.
C7_NewestFirst ==
    (resp.route = "GET /api/feedback" /\ resp.status = 200)
      => LET rows == resp.body
             newest == Last(feedback)
         IN  /\ Len(rows) = Len(feedback)
             /\ \A i, j \in 1..Len(rows) :
                  i < j => Instant(rows[i].created_at) >= Instant(rows[j].created_at)
             /\ (/\ Len(feedback) > 0
                 /\ newest.created_at.fmt = "sql"
                 /\ \A i \in 1..(Len(feedback) - 1) :
                      Instant(feedback[i].created_at) < Instant(newest.created_at))
                  => rows[1].id = newest.id

\* C8: every row of the feedback table has a sentiment among positive,
\* neutral, negative and an urgency among high, medium, low.
C8_EnumsOnly ==
    \A i \in 1..Len(feedback) :
      /\ feedback[i].sentiment \in {Str("positive"), Str("neutral"), Str("negative")}
      /\ feedback[i].urgency \in {Str("high"), Str("medium"), Str("low")}

\* C9: the top_themes, urgent_items and sentiment_breakdown that GET
\* /api/digest decodes from a persisted digest equal the structures the
\* generate response returned for it; and what GET /api/digest returns is
\* the decoding of a persisted digest.
C9_RoundTrip ==
    /\ (IsGenerate(resp) /\ resp.status = 200)
         => LET read == DecodedDigest(Last(digests))
                sent == resp.body.digest
            IN  /\ read.top_themes = Prop(sent, "top_themes")
                /\ read.urgent_items = Prop(sent, "urgent_items")
                /\ read.sentiment_breakdown = Prop(sent, "sentiment_breakdown")
    /\ (resp.route = "GET /api/digest" /\ resp.status = 200)
         => \E i \in 1..Len(digests) : resp.body = DecodedDigest(digests[i])

C9_Witness ==
    /\ IsGenerate(resp)
    /\ resp.status = 200
    /\ resp.body.digest = dFull
    /\ Last(digests).top_themes # Last(digests).urgent_items

\* C10: unless the store fails, GET /webhook/slack is answered without
\* error: with the placeholder when there is no digest, and otherwise with
\* the summary and feedback_count of a digest GET /api/digest may return.
C10_WebhookNeverErrors ==
    (resp.route = "GET /webhook/slack" /\ ~StoreFault(resp))
      => /\ resp.status = 200
         /\ digests = <<>> => resp.body = Placeholder
         /\ digests # <<>>
              => \E ties \in TieOrders :
                   LET d == LatestDigest(ties)[1]
                   IN  /\ resp.body.summary = d.summary
                       /\ resp.body.context.feedback_count = d.feedback_count

\* the strings of the errors a route handler raises
HandlerErrors ==
    {Unavailable, NoSuchTable, "SyntaxError", "TypeError", "D1_TYPE_ERROR",
     "D1_ERROR: NOT NULL constraint failed"}
\* what the store holds
Durable == <<feedbackTable, digestsTable, feedback, digests>>

\* C11 as stated: every request that fails with an error is answered 500
\* with error "Internal Server Error" and the error's string in details.
C11_RouterBodyOnEveryError ==
    resp.status = 500
      => /\ resp.body.error = "Internal Server Error"
         /\ "details" \in DOMAIN resp.body

\* C11 amended: an error raised in a route handler is answered 500; the body
\* is {error: "Internal Server Error", details: the error's string} on every
\* route but POST /api/init, whose handler catches its own store error and
\* answers {success: false, error: the error's string}. The failed step
\* changes no table, no row and no other request, so later requests meet
\* the state the earlier steps left.
C11_ErrorsStayInside ==
    [][(Ready /\ resp' # NoResp)
         => /\ resp'.status \in {200, 400, 404, 500}
            /\ (IsPost(resp') /\ ~resp'.req.readable)
                 => resp' = [route |-> "POST /api/feedback", status |-> 500,
                             body |-> [error |-> "Internal Server Error",
                                       details |-> "SyntaxError"],
                             req |-> resp'.req, ai |-> 0, text |-> <<>>]
            /\ (resp'.route = "GET /api/feedback" /\ ~feedbackTable)
                 => /\ resp'.status = 500
                    /\ resp'.body.details \in {Unavailable, NoSuchTable}
            /\ (resp'.route \in {"GET /api/digest", "GET /webhook/slack"}
                 /\ ~digestsTable)
                 => /\ resp'.status = 500
                    /\ resp'.body.details \in {Unavailable, NoSuchTable}
            /\ resp'.status = 500
                 => /\ IF resp'.route = "POST /api/init"
                       THEN resp'.body = [success |-> FALSE, error |-> Unavailable]
                       ELSE /\ resp'.body.error = "Internal Server Error"
                            /\ resp'.body.details \in HandlerErrors
                    /\ Durable' = Durable
                    /\ \A s \in Slots : inflight'[s] \in {inflight[s], Idle}]_vars

C11_Witness ==
    /\ IsPost(resp)
    /\ ~resp.req.readable
    /\ resp.status = 500
    /\ Len(feedback) > 0
    /\ digests # <<>>

IsPrefix(a, b) == Len(a) <= Len(b) /\ SubSeq(b, 1, Len(a)) = a
ReadOnlyRoutes ==
    {"GET /api/feedback", "GET /api/digest", "GET /webhook/slack", "OPTIONS",
     "unmatched"}

\* C12: no step updates or deletes a row of either table; the steps of
\* POST /api/digest/generate leave the feedback table as it was; GET
\* /api/feedback, GET /api/digest, GET /webhook/slack, OPTIONS and unmatched
\* routes leave both tables as they were.
C12_AppendOnly ==
    [][/\ IsPrefix(feedback, feedback')
       /\ IsPrefix(digests, digests')
       /\ (\E s \in Slots : /\ inflight'[s] # inflight[s]
                             /\ "generate" \in {inflight[s].kind, inflight'[s].kind})
            => feedback' = feedback
       /\ (Ready /\ IsGenerate(resp')) => feedback' = feedback
       /\ (Ready /\ resp'.route \in ReadOnlyRoutes)
            => (feedback' = feedback /\ digests' = digests)]_vars

\* a second digest has been inserted after the first, and a read follows
C12_Witness ==
    /\ Len(digests) = 2
    /\ Len(feedback) = 2
    /\ resp.route = "GET /webhook/slack"
    /\ resp.status = 200

\* the first segment of a text that opens a brace, 0 when there is none
FirstOpen(text) ==
    LET opens == {i \in 1..Len(text) : HasOpen(text[i])}
    IN  IF opens = {} THEN 0 ELSE CHOOSE i \in opens : \A i2 \in opens : i <= i2
\* the text begins its braces with a well-formed object and holds a further
\* '}' after it
ObjectThenMore(text) ==
    /\ FirstOpen(text) > 0
    /\ text[FirstOpen(text)].k = "obj"
    /\ \E j \in (FirstOpen(text) + 1)..Len(text) : HasClose(text[j])

\* C14: when the text of the model holds a well-formed object followed by
\* another object or by further text with a '}', the classifier and the
\* digest generator use the first object, not the default value.
C14_FirstMatch ==
    (resp.status = 200 /\ ObjectThenMore(resp.text))
      => LET first == resp.text[FirstOpen(resp.text)].v
         IN  /\ IsPost(resp)
                  => resp.body.analysis =
                       [sentiment |-> OrElse(Prop(first, "sentiment"), Str("neutral")),
                        urgency |-> OrElse(Prop(first, "urgency"), Str("medium")),
                        themes |-> OrElse(Prop(first, "themes"), Str("general"))]
             /\ IsGenerate(resp) => resp.body.digest = first

IsSeed(r) == r.route = "POST /api/seed"
\* texts after which the classifier has nothing to parse: the call threw,
\* or its text holds no JSON object or one that does not parse
ModelFailures == {<<>>, <<Prose>>, <<Bad>>, <<Open, Prose>>}
FallbackTriple == [sentiment |-> Str("neutral"), urgency |-> Str("medium"),
                   themes |-> Str("general")]
\* the request suspended in slot s handles item i in this step
SeedTurn(s, i) ==
    LET item == mockFeedback[i]
        row == Last(feedback')
    IN  \/ /\ Len(feedback') = Len(feedback) + 1
           /\ SubSeq(feedback', 1, Len(feedback)) = feedback
           /\ row.source = item.source
           /\ row.content = item.content
           /\ row.author = item.author
           /\ row.created_at = item.created_at
           /\ IF i = 12
              THEN /\ inflight'[s] = Idle
                   /\ IsSeed(resp')
                   /\ resp'.status = 200
                   /\ resp'.body.seededCount = 12
                   /\ resp'.text \in ModelFailures => Triple(row) = FallbackTriple
              ELSE /\ resp' = NoResp
                   /\ inflight'[s].kind = "seed"
                   /\ inflight'[s].i = i + 1
                   /\ inflight'[s].count = i
        \/ /\ feedback' = feedback
           /\ inflight'[s] = Idle
           /\ IsSeed(resp')
           /\ resp'.status = 500
           /\ resp'.text \in ModelFailures => StoreFault(resp')

\* C13: POST /api/seed handles the 12 bundled items one step at a time in
\* list order. Each step appends the row of its item, whatever the table
\* holds already, and the step of item 12 answers 200 with 12 rows seeded;
\* or its insert fails, the step appends nothing, answers 500 and ends the
\* request, the rows of the earlier steps staying. After a failure of the
\* model the row carries the fallback triple, and a 500 is the store's.
C13_SeedsOneAtATime ==
    [][/\ Len(mockFeedback) = 12
       /\ seeds' = seeds + 1 => SeedTurn(FreeSlot, 1)
       /\ \A s \in Slots :
            (inflight[s].kind = "seed" /\ inflight'[s] # inflight[s])
              => /\ inflight[s].count = inflight[s].i - 1
                 /\ SeedTurn(s, inflight[s].i)
       /\ (IsSeed(resp') /\ Ready)
            => \/ seeds' = seeds + 1
               \/ \E s \in Slots : inflight[s].kind = "seed" /\ inflight'[s] = Idle]_vars

\* a second seed has completed on top of the first
C13_Witness ==
    /\ IsSeed(resp)
    /\ resp.status = 200
    /\ resp.text = <<Bad>>
    /\ Len(feedback) = 24
    /\ feedback[13].content = feedback[1].content
    /\ Triple(feedback[24]) = FallbackTriple

\* a seed has failed at its fifth insert, four rows staying
C13_WitnessFailure ==
    /\ IsSeed(resp)
    /\ resp.status = 500
    /\ resp.ai = 5
    /\ Len(feedback) = 4

====
